---- MODULE Spec2Model ----
(***************************************************************************)
(* A model of exp1.py (ihsgnef/influenceless): the dataset-variant         *)
(* pipeline random_dev_set -> remove_by_random -> remove_by_confidence ->  *)
(* remove_by_similarity over a small file system, the file writer          *)
(* create_data_config, and compare_scores.                                 *)
(*                                                                         *)
(* Files are sequences of characters (TSV) or sequences of <<key, value>>  *)
(* pairs (a JSON object in document order).  The fine-tuned network, the   *)
(* tokenizer and the trainer are third-party: their outputs (class         *)
(* probabilities, pooled representations) are inputs drawn from small sets.*)
(***************************************************************************)
EXTENDS Integers, Sequences, FiniteSets, TLC

VARIABLES
    fs,       \* the files: path -> content
    dirs,     \* the directories made by Path(...).mkdir
    weights,  \* output_dir -> the fine-tuned model saved there (an input)
    rng,      \* the state of the `random` module's generator
    pc,       \* the position of the running script
    loc,      \* the local variables of the running function
    calls,    \* one record per create_data_config call: arguments and paths
    devlog,   \* the examples random_dev_set wrote, one list per fold
    printed   \* what compare_scores printed, one record per (args_dir, fold)

vars == <<fs, dirs, weights, rng, pc, loc, calls, devlog, printed>>

----------------------------------------------------------------------------
(* Bounds of the model.                                                    *)

MaxNeg == 20         \* label-0 examples in the base training set: at most MaxNeg
MaxPos == 3          \* label-1 examples in the base training set: 0..MaxPos
MaxModel == 2        \* saved models: 1..MaxModel
DevOver == 1         \* the large dev set has n_examples + DevOver negatives
MaxDevPos == 1       \* label-1 examples in the dev set: 0..MaxDevPos
MaxLen == 2          \* small lists: train_examples of a lone call, each class of the compared dev set
MaxCalls == 2        \* create_data_config alone: number of calls
MaxDirs == 2         \* compare_scores alone: length of args_dirs
Scale == 4           \* probabilities are multiples of 1/Scale

(* Program constants.                                                      *)
NExamples == 50      \* n_examples, random_dev_set
NTrials == 3         \* n_trials, remove_by_random
RemovedPerTen == 10  \* int(0.1 * len(...)): one example in ten
Seed == 42           \* random.seed(42)

----------------------------------------------------------------------------
(* Small helpers.                                                          *)

Min(a, b) == IF a <= b THEN a ELSE b

\* A list given by a rule, as a list value: its elements are worked out once.
List(f) == SubSeq(f, 1, Len(f))

Range(s) == {s[i] : i \in 1..Len(s)}

\* Python's s[n:] on a list.
Slice(s, n) == IF n >= Len(s) THEN <<>> ELSE SubSeq(s, n + 1, Len(s))

\* s[:n + 1]: one element too many.
PrefixOneMore(s, n) == SubSeq(s, 1, Min(n + 1, Len(s)))

\* Python's s[:n] on a list.
Prefix(s, n) == SubSeq(s, 1, Min(n, Len(s)))

\* The list is not reversed.
ReverseNot(s) == s

\* Python's s[::-1].
Reverse(s) == List([i \in 1..Len(s) |-> s[Len(s) + 1 - i]])

\* The recursions below halve their range, so that their depth stays small.

\* The elements of s[lo..hi] at the places where keep holds, in order.
RECURSIVE FilterRange(_, _, _, _)
FilterRange(s, keep, lo, hi) ==
    IF lo > hi THEN <<>>
    ELSE IF lo = hi THEN (IF keep[lo] THEN <<s[lo]>> ELSE <<>>)
    ELSE LET mid == (lo + hi) \div 2
         IN  FilterRange(s, keep, lo, mid) \o FilterRange(s, keep, mid + 1, hi)

\* [x for x in s if ...] and s[mask]: keep[i] tells whether s[i] stays.
Filter(s, keep) == FilterRange(s, keep, 1, Len(s))

\* ''.join(ss[lo..hi])
RECURSIVE FlattenRange(_, _, _)
FlattenRange(ss, lo, hi) ==
    IF lo > hi THEN <<>>
    ELSE IF lo = hi THEN ss[lo]
    ELSE LET mid == (lo + hi) \div 2
         IN  FlattenRange(ss, lo, mid) \o FlattenRange(ss, mid + 1, hi)

\* ''.join(ss)
Flatten(ss) == FlattenRange(List(ss), 1, Len(ss))

\* sum(s[lo..hi])
RECURSIVE SumRange(_, _, _)
SumRange(s, lo, hi) ==
    IF lo > hi THEN 0
    ELSE IF lo = hi THEN s[lo]
    ELSE LET mid == (lo + hi) \div 2
         IN  SumRange(s, lo, mid) + SumRange(s, mid + 1, hi)

\* sum(s)
SeqSum(s) == SumRange(List(s), 1, Len(s))

\* A tenth rounded up instead of down.
TenPercentRoundedUp(n) == (n + RemovedPerTen - 1) \div RemovedPerTen

\* int(0.1 * n)
TenPercent(n) == n \div RemovedPerTen

----------------------------------------------------------------------------
(* Text: formatting and parsing of the TSV files.                          *)

TAB == "\t"
NL == "\n"

Header == <<"s", "e", "n", "t", "e", "n", "c", "e", TAB, "l", "a", "b", "e", "l", NL>>

\* '{}\t{}\n'.format(example.text_a, example.label)
Row(example) == example.text_a \o <<TAB>> \o <<example.label>> \o <<NL>>

\* f.write(header); for example in train_examples: f.write(row)
TsvOf(examples) == Header \o Flatten([k \in 1..Len(examples) |-> Row(examples[k])])

\* s.split(sep): the pieces of s between the places that hold sep.
Split(s, sep) ==
    LET at == Filter(List([i \in 1..Len(s) |-> i]),
                     List([i \in 1..Len(s) |-> s[i] = sep]))
        cut == <<0>> \o at \o <<Len(s) + 1>>
    IN  List([k \in 1..(Len(at) + 1) |-> SubSeq(s, cut[k] + 1, cut[k + 1] - 1)])

\* The lines of a file: each ends at a newline; text after the last newline
\* is a line only when it is not empty.
Lines(s) ==
    LET pieces == Split(s, NL)
    IN  IF pieces[Len(pieces)] = <<>> THEN SubSeq(pieces, 1, Len(pieces) - 1)
        ELSE pieces

\* line.split('\t')
Fields(s) == Split(s, TAB)

\* Sst2Processor: the header line is skipped, line i is example i with
\* text_a = line[0] and label = line[1].
ReadExamples(content) ==
    LET rows == Lines(content)
    IN  List([i \in 1..(Len(rows) - 1) |->
            LET f == Fields(rows[i + 1])
            IN  [guid |-> i, text_a |-> f[1], label |-> f[2][1]]])

\* GlueDataset: label_map = {"0": 0, "1": 1}
LabelId(label) == IF label = "0" THEN 0 ELSE 1

----------------------------------------------------------------------------
(* The file system and the JSON configs.                                   *)

\* open(path, 'a'): the content goes after what the file held.
WriteFileAppending(f, path, content) ==
    [p \in (DOMAIN f) \cup {path} |->
        IF p = path THEN (IF path \in DOMAIN f THEN f[path] \o content ELSE content)
        ELSE f[p]]

\* open(path, 'w') ... write(content) ... close(): the file holds content.
WriteFile(f, path, content) ==
    [p \in (DOMAIN f) \cup {path} |-> IF p = path THEN content ELSE f[p]]

HasKey(d, k) == \E i \in 1..Len(d) : d[i][1] = k

\* d[k]
DictGet(d, k) == d[CHOOSE i \in 1..Len(d) : d[i][1] = k][2]

\* d.update({k: v}): a key of d keeps its place, a new key goes last.
DictUpdate(d, k, v) ==
    IF HasKey(d, k)
    THEN List([i \in 1..Len(d) |-> IF d[i][1] = k THEN <<k, v>> ELSE d[i]])
    ELSE Append(d, <<k, v>>)

None == <<>>
Some(v) == <<v>>

\* The version is left out of the name.
VersionedNameUnversioned(config_name, version_number) == config_name

\* if version_number: ... (version 0 is falsy)
VersionedNameTruthy(config_name, version_number) ==
    IF version_number # None /\ version_number[1] # 0
    THEN config_name \o "/" \o ToString(version_number[1])
    ELSE config_name

\* if version_number is not None: config_name += '/' + str(version_number)
VersionedName(config_name, version_number) ==
    IF version_number # None
    THEN config_name \o "/" \o ToString(version_number[1])
    ELSE config_name

BaseConfigPath(task_name) == "configs/" \o task_name \o "/base.json"

DataDir(task_name, name) == "data/" \o task_name \o "/" \o name

OutputDir(task_name, name) == "output/" \o task_name \o "/" \o name

ConfigDir(task_name, name) == "configs/" \o task_name \o "/" \o name \o ".json"

\* os.path.join(data_dir, 'train.tsv')
TrainDataDir(data_dir) == data_dir \o "/train.tsv"

\* Path(config_dir).parent
ConfigParent(task_name, config_name, version_number) ==
    IF version_number # None
    THEN "configs/" \o task_name \o "/" \o config_name
    ELSE "configs/" \o task_name

Digits == <<"0", "1", "2", "3", "4", "5", "6", "7", "8", "9">>

\* '{}'.format(i) for an int i >= 0
RECURSIVE IntChars(_)
IntChars(i) ==
    IF i < 10 THEN <<Digits[i + 1]>>
    ELSE IntChars(i \div 10) \o <<Digits[(i % 10) + 1]>>

RECURSIVE Rep(_, _)
Rep(s, n) == IF n = 0 THEN <<>> ELSE s \o Rep(s, n - 1)

NullTab == <<"N", "U", "L", "L", TAB>>

SnliHeader ==
    <<"I", "n", "d", "e", "x", TAB>> \o Rep(NullTab, 6)
    \o <<"s", "e", "n", "t", "e", "n", "c", "e", "1", TAB>>
    \o <<"s", "e", "n", "t", "e", "n", "c", "e", "2", TAB>>
    \o Rep(NullTab, 5)
    \o <<"g", "o", "l", "d", "_", "l", "a", "b", "e", "l", NL>>

\* ('{}\t' + 'NULL\t' * 6 + '{}\t{}\t' + 'NULL\t' * 5 + '{}\n').format(i, ...)
SnliRow(i, example) ==
    IntChars(i) \o <<TAB>> \o Rep(NullTab, 6)
    \o example.text_a \o <<TAB>> \o example.text_b \o <<TAB>>
    \o Rep(NullTab, 5) \o <<example.label>> \o <<NL>>

SnliTsvOf(examples) ==
    SnliHeader \o Flatten([k \in 1..Len(examples) |-> SnliRow(k - 1, examples[k])])

\* create_data_config: the files after the call.
create_data_config(f, task_name, config_name, train_examples, version_number) ==
    LET args == f[BaseConfigPath(task_name)]
        name == VersionedName(config_name, version_number)
        data_dir == DataDir(task_name, name)
        output_dir == OutputDir(task_name, name)
        config_dir == ConfigDir(task_name, name)
        train_data_dir == TrainDataDir(data_dir)
        updated == DictUpdate(DictUpdate(args, "train_data_dir", data_dir),
                              "output_dir", output_dir)
        f1 == WriteFile(f, config_dir, updated)
        f2 == IF task_name = "SST-2"
              THEN WriteFile(f1, train_data_dir, TsvOf(train_examples))
              ELSE f1
    IN  IF task_name = "SNLI"
        THEN WriteFile(f2, train_data_dir, SnliTsvOf(train_examples))
        ELSE f2

\* The directories create_data_config makes.
create_data_config_dirs(task_name, config_name, version_number) ==
    LET name == VersionedName(config_name, version_number)
    IN  {DataDir(task_name, name), OutputDir(task_name, name),
         ConfigParent(task_name, config_name, version_number)}

\* The record of one call: its arguments and the two paths it writes.
CallRecord(task_name, config_name, train_examples, version_number) ==
    LET name == VersionedName(config_name, version_number)
    IN  [task_name |-> task_name, config_name |-> config_name,
         version_number |-> version_number, train_examples |-> train_examples,
         train_data_dir |-> TrainDataDir(DataDir(task_name, name)),
         config_dir |-> ConfigDir(task_name, name)]

\* One call of create_data_config, as a step of the running script.
CreateDataConfig(task_name, config_name, train_examples, version_number) ==
    /\ fs' = create_data_config(fs, task_name, config_name, train_examples,
                                version_number)
    /\ dirs' = dirs \cup create_data_config_dirs(task_name, config_name,
                                                 version_number)
    /\ calls' = Append(calls, CallRecord(task_name, config_name, train_examples,
                                         version_number))

----------------------------------------------------------------------------
(* The generator of the `random` module and random.shuffle.                *)

\* The generator's next state: a stand-in for the Mersenne Twister, whose
\* stream the program only consumes.
RngNext(r) == (r * 13 + 7) % 97

\* random._randbelow(n)
RandBelow(r, n) == r % n

\* A swap that loses x[i]: the second assignment is missing.
SwapHalf(x, i, j) == [x EXCEPT ![i] = x[j]]

Swap(x, i, j) == [x EXCEPT ![i] = x[j], ![j] = x[i]]

\* for i in reversed(range(1, len(x))): j = randbelow(i + 1); x[i], x[j] = x[j], x[i]
\* (i is 0-based; the list is indexed from 1)
RECURSIVE ShuffleFrom(_, _, _)
ShuffleFrom(x, r, i) ==
    IF i < 1 THEN [list |-> x, rng |-> r]
    ELSE ShuffleFrom(Swap(x, i + 1, RandBelow(r, i + 1) + 1), RngNext(r), i - 1)

\* random.shuffle(x): the shuffled list and the generator's state after it.
Shuffle(x, r) == ShuffleFrom(x, r, Len(x) - 1)

----------------------------------------------------------------------------
(* The inputs: the data files, the base config, the saved models.          *)

GlueDev == "glue_data/SST-2" \o "/dev.tsv"
BaseDir == "data/SST-2/base"
BaseTrain == BaseDir \o "/train.tsv"
BaseDev == "data/SST-2/base/" \o "dev.tsv"
BaseConfig == "configs/SST-2/base.json"

Texts == << <<"a">>, <<"b">>, <<"a", "b">>, <<"b", " ", "a">>, <<"b", "b">> >>

TextOf(i) == Texts[(i % Len(Texts)) + 1]

\* The label of example i of a set with nNeg label-0 and nPos label-1
\* examples: the labels alternate while both remain.
LabelAt(i, nNeg, nPos) ==
    IF i <= 2 * Min(nNeg, nPos)
    THEN (IF i % 2 = 0 THEN "1" ELSE "0")
    ELSE (IF nPos > nNeg THEN "1" ELSE "0")

\* A labelled set as the GLUE files hold it.
Dataset(nNeg, nPos, shift) ==
    List([i \in 1..(nNeg + nPos) |->
        [guid |-> i, text_a |-> TextOf(i + shift), label |-> LabelAt(i, nNeg, nPos)]])

\* configs/SST-2/base.json, as sst2_without_subtrees lays a config out.
BaseArgs ==
    << <<"model_name_or_path", "distilbert-base-cased">>,
       <<"task_name", "SST-2">>,
       <<"do_train", "true">>,
       <<"data_dir", BaseDir>>,
       <<"output_dir", "output/SST-2/base">>,
       <<"train_data_dir", BaseDir>>,
       <<"eval_data_dir", BaseDir>> >>

\* The sizes of the label-0 part of the dev set: none, one, more than n_examples.
DevNegSizes == {0, 1, NExamples + DevOver}

\* The sizes of the label-0 part of the base training set: with 0..MaxPos
\* label-1 examples they give sets of a few, of about ten and of about twenty
\* examples, on both sides of the sizes where int(0.1 * n) steps.
TrainNegSizes == {0, (MaxNeg \div 2) - MaxPos, MaxNeg - MaxPos, MaxNeg}

Init ==
    \E nNeg \in TrainNegSizes, nPos \in 0..MaxPos, dNeg \in DevNegSizes,
       dPos \in 0..MaxDevPos, m \in 1..MaxModel :
        /\ nNeg + nPos >= 1
        /\ dNeg + dPos >= 1
        /\ fs = WriteFile(WriteFile(WriteFile(<<>>,
                    GlueDev, TsvOf(Dataset(dNeg, dPos, 1))),
                    BaseTrain, TsvOf(Dataset(nNeg, nPos, 0))),
                    BaseConfig, BaseArgs)
        /\ dirs = {}
        /\ weights = WriteFile(<<>>, "output/SST-2/base", m)
        /\ rng = Seed
        /\ pc = "random_dev_set"
        /\ loc = [fn |-> "main"]
        /\ calls = <<>>
        /\ devlog = <<>>
        /\ printed = <<>>

----------------------------------------------------------------------------
(* random_dev_set                                                          *)

IsNegative(x) == x.label = "0"
\* No test of the label.
IsPositiveAny(x) == TRUE

IsPositive(x) == x.label = "1"

\* Lines 185-189: the folds, in the order of the dict.
DevDatasets(dev_examples) ==
    <<dev_examples,
      Filter(dev_examples,
             List([i \in 1..Len(dev_examples) |-> IsNegative(dev_examples[i])])),
      Filter(dev_examples,
             List([i \in 1..Len(dev_examples) |-> IsPositive(dev_examples[i])]))>>

\* Lines 182-194: the dev examples are read, the three folds are built and
\* the output file is opened and gets its header.
RandomDevSetOpen ==
    /\ pc = "random_dev_set"
    /\ loc' = [fn |-> "random_dev_set",
               datasets |-> DevDatasets(ReadExamples(fs[GlueDev])),
               fold |-> 1]
    /\ dirs' = dirs \cup {"data/SST-2/base/"}
    /\ fs' = WriteFile(fs, BaseDev, Header)
    /\ pc' = "dev_fold"
    /\ UNCHANGED <<weights, rng, calls, devlog, printed>>

\* Lines 196-200: one fold is shuffled in place and its first n_examples
\* are written; the file is closed after the last fold.
WriteFold(k, sh, written) ==
    /\ rng' = sh.rng
    /\ fs' = [fs EXCEPT ![BaseDev] =
                 @ \o Flatten([j \in 1..Len(written) |-> Row(written[j])])]
    /\ devlog' = Append(devlog, written)
    /\ loc' = [loc EXCEPT !.datasets[k] = sh.list, !.fold = k + 1]
    /\ pc' = IF k = 3 THEN "remove_by_random" ELSE "dev_fold"

RandomDevSetFold ==
    /\ pc = "dev_fold"
    /\ WriteFold(loc.fold, Shuffle(loc.datasets[loc.fold], rng),
                 Prefix(Shuffle(loc.datasets[loc.fold], rng).list, NExamples))
    /\ UNCHANGED <<dirs, weights, calls, printed>>

----------------------------------------------------------------------------
(* remove_by_random                                                        *)

\* Lines 204-208.
RandomLocals(all_examples) ==
    [fn |-> "remove_by_random",
     all_examples |-> all_examples,
     negative_examples |->
         Filter(all_examples,
                List([i \in 1..Len(all_examples) |-> IsNegative(all_examples[i])])),
     positive_examples |->
         Filter(all_examples,
                List([i \in 1..Len(all_examples) |-> IsPositive(all_examples[i])])),
     n_examples_removed |-> TenPercent(Len(all_examples)),
     i |-> 0]

RemoveByRandomStart ==
    /\ pc = "remove_by_random"
    /\ loc' = RandomLocals(ReadExamples(fs[BaseTrain]))
    /\ pc' = "random_combined"
    /\ UNCHANGED <<fs, dirs, weights, rng, calls, devlog, printed>>

\* The loop counter after one trial, and where the script goes after the last.
NextTrial(after) ==
    IF loc.i + 1 < NTrials THEN [i |-> loc.i + 1, pc |-> pc]
    ELSE [i |-> 0, pc |-> after]

\* Lines 210-217: one trial of the first loop.
CombinedTrial(sh, nx) ==
    /\ rng' = sh.rng
    /\ loc' = [loc EXCEPT !.all_examples = sh.list, !.i = nx.i]
    /\ pc' = nx.pc
    /\ CreateDataConfig("SST-2", "random_10_percent_removed_combined",
                        Slice(sh.list, loc.n_examples_removed), Some(loc.i))

RandomCombinedTrial ==
    /\ pc = "random_combined"
    /\ CombinedTrial(Shuffle(loc.all_examples, rng), NextTrial("random_positive"))
    /\ UNCHANGED <<weights, devlog, printed>>

\* Lines 219-226: one trial of the second loop.
PositiveTrial(sh, nx) ==
    /\ rng' = sh.rng
    /\ loc' = [loc EXCEPT !.positive_examples = sh.list, !.i = nx.i]
    /\ pc' = nx.pc
    /\ CreateDataConfig("SST-2", "random_10_percent_removed_positive",
                        Slice(sh.list, loc.n_examples_removed) \o loc.negative_examples,
                        Some(loc.i))

RandomPositiveTrial ==
    /\ pc = "random_positive"
    /\ PositiveTrial(Shuffle(loc.positive_examples, rng), NextTrial("random_negative"))
    /\ UNCHANGED <<weights, devlog, printed>>

\* Lines 228-235: one trial of the third loop.
NegativeTrial(sh, nx) ==
    /\ rng' = sh.rng
    /\ loc' = [loc EXCEPT !.negative_examples = sh.list, !.i = nx.i]
    /\ pc' = nx.pc
    /\ CreateDataConfig("SST-2", "random_10_percent_removed_negative",
                        Slice(sh.list, loc.n_examples_removed) \o loc.positive_examples,
                        Some(loc.i))

RandomNegativeTrial ==
    /\ pc = "random_negative"
    /\ NegativeTrial(Shuffle(loc.negative_examples, rng),
                     NextTrial("remove_by_confidence"))
    /\ UNCHANGED <<weights, devlog, printed>>

----------------------------------------------------------------------------
(* The third-party parts: setup, the network's outputs, numpy's argsort.   *)

\* GlueDataset: the features of the examples of a file; the label is an id.
Features(examples) ==
    List([i \in 1..Len(examples) |->
        [text_a |-> examples[i].text_a, label |-> LabelId(examples[i].label)]])

\* setup(args_dir): the model saved in the config's output_dir and the two
\* datasets, train.tsv of its train_data_dir and dev.tsv of its eval_data_dir.
Setup(f, w, args_dir) ==
    LET args == f[args_dir]
    IN  [model |-> w[DictGet(args, "output_dir")],
         train_dataset |->
             Features(ReadExamples(f[DictGet(args, "train_data_dir") \o "/train.tsv"])),
         eval_dataset |->
             Features(ReadExamples(f[DictGet(args, "eval_data_dir") \o "/dev.tsv"]))]

CharCode(c) == IF c = "a" THEN 1 ELSE IF c = "b" THEN 2 ELSE 3

TextCode(t) == SeqSum([i \in 1..Len(t) |-> i * CharCode(t[i])])

\* F.softmax(predictions): the probabilities <<p0, p1>> model m gives a text,
\* in units of 1/Scale.  The network is a function of the text alone.
Probabilities(m, text) ==
    LET p1 == (m * TextCode(text) + m) % (Scale + 1)
    IN  <<Scale - p1, p1>>

\* np.argmax(predictions, axis=1): the first of two equal entries wins.
ArgMax(p) == IF p[2] > p[1] THEN 1 ELSE 0

\* The score of label 1, whatever the example's label.
ChooseScoreOfOne(label_id, p) == p[2]

\* np.choose(label_ids, scores.T): each row's entry at its own label.
ChooseScore(label_id, p) == p[label_id + 1]

\* outputs[1]: the pooled representation model m gives a text.
Pooled(m, text) ==
    LET c == TextCode(text)
    IN  <<((m * c) % 3) - 1, ((c + m) % 5) - 2>>

\* One entry of a @ b.T
Dot(a, b) == a[1] * b[1] + a[2] * b[2]

\* A float as a fraction; 0/0 is NaN (the mean of no rows).
Num(v) == [num |-> v, den |-> 1]
IsNaN(a) == a.den = 0
\* The sign is not flipped.
NegatedNot(a) == a

Negated(a) == [num |-> 0 - a.num, den |-> a.den]

\* a < b on floats: false when either is NaN.
FloatLess(a, b) == ~IsNaN(a) /\ ~IsNaN(b) /\ a.num * b.den < b.num * a.den

\* a <= b on floats: false when either is NaN.
FloatLeq(a, b) == ~IsNaN(a) /\ ~IsNaN(b) /\ a.num * b.den <= b.num * a.den

\* The order numpy sorts in: NaN after every number.
SortsBefore(a, b) == ~IsNaN(a) /\ (IsNaN(b) \/ FloatLess(a, b))

\* How a sort that is not stable may order equal keys: as they stood, or the
\* other way round.
Ties == {"kept", "reversed"}

\* np.argsort(keys): the indices (from 1) in ascending order of their keys.
ArgSort(keys, tie) ==
    LET n == Len(keys)
        Before(i, j) ==
            \/ SortsBefore(keys[i], keys[j])
            \/ /\ ~SortsBefore(keys[j], keys[i])
               /\ IF tie = "kept" THEN i < j ELSE i > j
        place == List([i \in 1..n |-> 1 + Cardinality({j \in 1..n : Before(j, i)})])
    IN  List([p \in 1..n |-> CHOOSE i \in 1..n : place[i] = p])

\* [xs[i] for i in idx]
Take(xs, idx) == List([k \in 1..Len(idx) |-> xs[idx[k]]])

----------------------------------------------------------------------------
(* remove_by_confidence                                                    *)

\* Lines 242-243: the model's probability for each example's own label.
ConfidenceScores(model, train_dataset) ==
    List([i \in 1..Len(train_dataset) |->
        ChooseScore(train_dataset[i].label,
                    Probabilities(model, train_dataset[i].text_a))])

\* Lines 244-280: the six variants, in the order of the dict.
ConfidenceDatasets(scores, label_ids, train_examples, tie) ==
    LET indices == List([i \in 1..Len(scores) |-> i])
        positive_indices ==
            Filter(indices, List([i \in 1..Len(scores) |-> label_ids[i] = 1]))
        negative_indices ==
            Filter(indices, List([i \in 1..Len(scores) |-> label_ids[i] = 0]))
        positive_scores == Take(scores, positive_indices)
        negative_scores == Take(scores, negative_indices)
        Keys(ss) == List([i \in 1..Len(ss) |-> Negated(Num(ss[i]))])
        most_confident_combined_indices == ArgSort(Keys(scores), tie)
        most_confident_positive_indices ==
            Take(positive_indices, ArgSort(Keys(positive_scores), tie))
        most_confident_negative_indices ==
            Take(negative_indices, ArgSort(Keys(negative_scores), tie))
        n_removed == TenPercent(Len(train_examples))
    IN  << <<"most_confident_combined_removed",
             Take(train_examples, Slice(most_confident_combined_indices, n_removed))>>,
           <<"most_confident_positive_removed",
             Take(train_examples, Slice(most_confident_positive_indices, n_removed))
                 \o Take(train_examples, negative_indices)>>,
           <<"most_confident_negative_removed",
             Take(train_examples, Slice(most_confident_negative_indices, n_removed))
                 \o Take(train_examples, positive_indices)>>,
           <<"least_confident_combined_removed",
             Take(train_examples,
                  Slice(Reverse(most_confident_combined_indices), n_removed))>>,
           <<"least_confident_positive_removed",
             Take(train_examples,
                  Slice(Reverse(most_confident_positive_indices), n_removed))
                 \o Take(train_examples, negative_indices)>>,
           <<"least_confident_negative_removed",
             Take(train_examples,
                  Slice(Reverse(most_confident_negative_indices), n_removed))
                 \o Take(train_examples, positive_indices)>> >>

\* Lines 239-280.
ConfidenceLocals(s, train_examples, tie) ==
    LET scores == ConfidenceScores(s.model, s.train_dataset)
        label_ids == List([i \in 1..Len(s.train_dataset) |-> s.train_dataset[i].label])
    IN  [fn |-> "remove_by_confidence",
         scores |-> scores,
         label_ids |-> label_ids,
         datasets |-> ConfidenceDatasets(scores, label_ids, train_examples, tie),
         k |-> 1]

RemoveByConfidenceSetup ==
    /\ pc = "remove_by_confidence"
    /\ \E tie \in Ties :
        loc' = ConfidenceLocals(Setup(fs, weights, BaseConfig),
                                ReadExamples(fs[BaseTrain]), tie)
    /\ pc' = "confidence_write"
    /\ UNCHANGED <<fs, dirs, weights, rng, calls, devlog, printed>>

\* Lines 282-287: one turn of the loop over the dict.
RemoveByConfidenceWrite ==
    /\ pc = "confidence_write"
    /\ CreateDataConfig("SST-2", loc.datasets[loc.k][1], loc.datasets[loc.k][2], None)
    /\ loc' = [loc EXCEPT !.k = loc.k + 1]
    /\ pc' = IF loc.k = Len(loc.datasets) THEN "remove_by_similarity" ELSE pc
    /\ UNCHANGED <<weights, rng, devlog, printed>>

----------------------------------------------------------------------------
(* remove_by_similarity                                                    *)

FoldNames == <<"combined", "negative", "positive">>

\* Lines 322-326: the rows of the eval set each fold holds.
EvalSubsetIndices(eval_dataset) ==
    LET all == List([i \in 1..Len(eval_dataset) |-> i])
    IN  <<all,
          Filter(all, List([i \in 1..Len(eval_dataset) |-> eval_dataset[i].label = 0])),
          Filter(all, List([i \in 1..Len(eval_dataset) |-> eval_dataset[i].label = 1]))>>

\* similarity[indices].mean(axis=0)[t], similarity = pooled eval @ pooled train.T
FoldMean(pooled_eval, pooled_train, indices, t) ==
    [num |-> SeqSum([k \in 1..Len(indices) |->
                        Dot(pooled_eval[indices[k]], pooled_train[t])]),
     den |-> Len(indices)]

\* Line 329: np.argsort(-similarity[indices].mean(axis=0))
MostSimilarIndices(pooled_eval, pooled_train, indices, tie) ==
    ArgSort(List([t \in 1..Len(pooled_train) |->
                Negated(FoldMean(pooled_eval, pooled_train, indices, t))]), tie)

\* Lines 295-326.
SimilarityLocals(s, train_examples, tie) ==
    [fn |-> "remove_by_similarity",
     pooled_eval |-> List([i \in 1..Len(s.eval_dataset) |->
                             Pooled(s.model, s.eval_dataset[i].text_a)]),
     pooled_train |-> List([i \in 1..Len(s.train_dataset) |->
                              Pooled(s.model, s.train_dataset[i].text_a)]),
     train_examples |-> train_examples,
     n_removed |-> TenPercent(Len(train_examples)),
     eval_subset_indices |-> EvalSubsetIndices(s.eval_dataset),
     tie |-> tie,
     fold |-> 1]

RemoveBySimilaritySetup ==
    /\ pc = "remove_by_similarity"
    /\ \E tie \in Ties :
        loc' = SimilarityLocals(Setup(fs, weights, BaseConfig),
                                ReadExamples(fs[BaseTrain]), tie)
    /\ pc' = "similarity_most"
    /\ UNCHANGED <<fs, dirs, weights, rng, calls, devlog, printed>>

\* Lines 329-335: the first call of one turn of the loop over the folds.
RemoveBySimilarityMost ==
    /\ pc = "similarity_most"
    /\ CreateDataConfig("SST-2",
           "most_similar_to_" \o FoldNames[loc.fold] \o "_dev_removed",
           Take(loc.train_examples,
                Slice(MostSimilarIndices(loc.pooled_eval, loc.pooled_train,
                                         loc.eval_subset_indices[loc.fold], loc.tie),
                      loc.n_removed)),
           None)
    /\ pc' = "similarity_least"
    /\ UNCHANGED <<weights, rng, loc, devlog, printed>>

\* Lines 337-341: the second call of the turn.
RemoveBySimilarityLeast ==
    /\ pc = "similarity_least"
    /\ CreateDataConfig("SST-2",
           "least_similar_to_" \o FoldNames[loc.fold] \o "_dev_removed",
           Take(loc.train_examples,
                Slice(Reverse(MostSimilarIndices(loc.pooled_eval, loc.pooled_train,
                                                 loc.eval_subset_indices[loc.fold],
                                                 loc.tie)),
                      loc.n_removed)),
           None)
    /\ loc' = [loc EXCEPT !.fold = loc.fold + 1]
    /\ pc' = IF loc.fold = Len(FoldNames) THEN "done" ELSE "similarity_most"
    /\ UNCHANGED <<weights, rng, devlog, printed>>

----------------------------------------------------------------------------
(* The script: lines 393-398.                                              *)

Next ==
    \/ RandomDevSetOpen
    \/ RandomDevSetFold
    \/ RemoveByRandomStart
    \/ RandomCombinedTrial
    \/ RandomPositiveTrial
    \/ RandomNegativeTrial
    \/ RemoveByConfidenceSetup
    \/ RemoveByConfidenceWrite
    \/ RemoveBySimilaritySetup
    \/ RemoveBySimilarityMost
    \/ RemoveBySimilarityLeast

Spec == Init /\ [][Next]_vars

----------------------------------------------------------------------------
(* create_data_config on its own: a caller that makes up to MaxCalls calls  *)
(* for one task and one config name, over base configs of both layouts.    *)

Tasks == {"SST-2", "SNLI"}

\* configs/{task}/base.json: the layout of lines 59-73, or one that has no
\* train_data_dir yet.
BaseArgsOf(task_name, laid_out) ==
    LET base == "data/" \o task_name \o "/base"
        head == << <<"model_name_or_path", "distilbert-base-cased">>,
                   <<"task_name", task_name>>,
                   <<"do_train", "true">>,
                   <<"data_dir", base>>,
                   <<"output_dir", "output/" \o task_name \o "/base">> >>
    IN  IF laid_out
        THEN head \o << <<"train_data_dir", base>>, <<"eval_data_dir", base>> >>
        ELSE head \o << <<"eval_data_dir", base>> >>

\* The examples a caller holds: text_b is the second sentence of an SNLI pair.
CreatePool ==
    List([i \in 1..MaxLen |->
        [guid |-> i, text_a |-> TextOf(i), text_b |-> TextOf(i + 1),
         label |-> IF i % 2 = 0 THEN "1" ELSE "0"]])

\* The lists it passes: the runs of consecutive examples, the empty one included.
CreateLists == {SubSeq(CreatePool, i, j) : i \in 1..(MaxLen + 1), j \in 0..MaxLen}

ConfigNames == {"random_10_percent_removed_combined", "base"}

VersionNumbers == {None, Some(0), Some(1)}

InitCreate ==
    \E task_name \in Tasks, config_name \in ConfigNames, laid_out \in BOOLEAN :
        /\ fs = WriteFile(WriteFile(<<>>,
                    BaseConfigPath("SST-2"), BaseArgsOf("SST-2", laid_out)),
                    BaseConfigPath("SNLI"), BaseArgsOf("SNLI", laid_out))
        /\ dirs = {}
        /\ weights = <<>>
        /\ rng = Seed
        /\ pc = "create_data_config"
        /\ loc = [fn |-> "caller", task_name |-> task_name, config_name |-> config_name]
        /\ calls = <<>>
        /\ devlog = <<>>
        /\ printed = <<>>

\* Lines 137-178: one call.
CreateCall ==
    /\ pc = "create_data_config"
    /\ Len(calls) < MaxCalls
    /\ \E train_examples \in CreateLists, version_number \in VersionNumbers :
        CreateDataConfig(loc.task_name, loc.config_name, train_examples,
                         version_number)
    /\ UNCHANGED <<weights, rng, pc, loc, devlog, printed>>

NextCreate == CreateCall

SpecCreate == InitCreate /\ [][NextCreate]_vars

----------------------------------------------------------------------------
(* compare_scores                                                          *)

VariantNames == <<"most_confident_combined_removed", "random_10_percent_removed_combined">>

\* The config paths of the variants: the first without a version, the second
\* of trial 0.
VariantConfigs ==
    <<ConfigDir("SST-2", VersionedName(VariantNames[1], None)),
      ConfigDir("SST-2", VersionedName(VariantNames[2], Some(0)))>>

\* The args_dirs a caller passes: up to MaxDirs variant configs.
RECURSIVE ArgsDirsOfLen(_)
ArgsDirsOfLen(n) ==
    IF n = 0 THEN {<<>>}
    ELSE {Append(ds, d) : ds \in ArgsDirsOfLen(n - 1), d \in Range(VariantConfigs)}

ArgsDirs == UNION {ArgsDirsOfLen(n) : n \in 1..MaxDirs}

\* The files compare_scores finds: the base config and data, and the variants'
\* configs as create_data_config wrote them.
CompareFiles(dNeg, dPos) ==
    LET train == Dataset(1, 1, 0)
        f0 == WriteFile(WriteFile(WriteFile(<<>>,
                  BaseConfig, BaseArgs),
                  BaseTrain, TsvOf(train)),
                  BaseDev, TsvOf(Dataset(dNeg, dPos, 1)))
        f1 == create_data_config(f0, "SST-2", VariantNames[1], Slice(train, 1), None)
    IN  create_data_config(f1, "SST-2", VariantNames[2], Prefix(train, 1), Some(0))

InitCompare ==
    \E dNeg \in 0..MaxLen, dPos \in 0..MaxLen, m0 \in 1..MaxModel,
       m1 \in 1..MaxModel, m2 \in 1..MaxModel, args_dirs \in ArgsDirs :
        /\ dNeg + dPos >= 1
        /\ fs = CompareFiles(dNeg, dPos)
        /\ dirs = {}
        /\ weights = WriteFile(WriteFile(WriteFile(<<>>,
                         OutputDir("SST-2", "base"), m0),
                         OutputDir("SST-2", VersionedName(VariantNames[1], None)), m1),
                         OutputDir("SST-2", VersionedName(VariantNames[2], Some(0))), m2)
        /\ rng = Seed
        /\ pc = "compare_scores"
        /\ loc = [fn |-> "caller", args_dirs |-> args_dirs]
        /\ calls = <<>>
        /\ devlog = <<>>
        /\ printed = <<>>

\* trainer.predict(eval_dataset) and softmax: one row of probabilities per example.
Predict(model, dataset) ==
    List([j \in 1..Len(dataset) |-> Probabilities(model, dataset[j].text_a)])

\* np.choose(label_ids, softmax.T)
Scores(label_ids, probabilities) ==
    List([j \in 1..Len(label_ids) |-> ChooseScore(label_ids[j], probabilities[j])])

\* np.argmax(predictions, axis=1)
Predictions(probabilities) ==
    List([j \in 1..Len(probabilities) |-> ArgMax(probabilities[j])])

\* x[label_ids == label]
Masked(x, label_ids, label) ==
    Filter(x, List([j \in 1..Len(x) |-> label_ids[j] = label]))

\* {'combined': x, 'negative': x[label_ids == 0], 'positive': x[label_ids == 1]}
ByFold(x, label_ids) == <<x, Masked(x, label_ids, 0), Masked(x, label_ids, 1)>>

\* 'X: {} positive {} negative'.format(sum(p), len(p) - sum(p))
CountsLine(what, p) ==
    [line |-> what, positive |-> SeqSum(p), negative |-> Len(p) - SeqSum(p)]

\* np.mean(diff), the scores being in units of 1/Scale.
Mean(diff) == [num |-> SeqSum(diff), den |-> Len(diff) * Scale]

\* '{}: {}{:.4f}%'.format(fold, '+' if np.mean(diff) > 0 else '', np.mean(diff) * 100)
MeanLine(fold, diff) ==
    [line |-> fold, sign |-> IF FloatLess(Num(0), Mean(diff)) THEN "+" ELSE "",
     mean |-> Mean(diff)]

\* Lines 345-360.
CompareLocals(s, args_dirs) ==
    LET label_ids == List([j \in 1..Len(s.eval_dataset) |-> s.eval_dataset[j].label])
        output_original == Predict(s.model, s.eval_dataset)
    IN  [fn |-> "compare_scores",
         args_dirs |-> args_dirs,
         eval_dataset |-> s.eval_dataset,
         label_ids |-> label_ids,
         scores_original |-> Scores(label_ids, output_original),
         predictions_original |-> Predictions(output_original),
         predictions |-> <<>>,
         scores_diff |-> <<>>,
         i |-> 1]

CompareStartWith(l) ==
    /\ loc' = l
    /\ printed' = printed
           \o <<CountsLine("original predictions", l.predictions_original),
                CountsLine("original labels", l.label_ids)>>

CompareStart ==
    /\ pc = "compare_scores"
    /\ CompareStartWith(CompareLocals(Setup(fs, weights, BaseConfig), loc.args_dirs))
    /\ pc' = "compare_dir"
    /\ UNCHANGED <<fs, dirs, weights, rng, calls, devlog>>

\* Lines 363-377: the predictions and the score differences of one args_dir,
\* fold by fold.
CompareFolds(model, l) ==
    LET output_modified == Predict(model, l.eval_dataset)
        scores_modified == Scores(l.label_ids, output_modified)
    IN  [predictions |-> ByFold(Predictions(output_modified), l.label_ids),
         scores_diff |->
             ByFold(List([j \in 1..Len(scores_modified) |->
                        scores_modified[j] - l.scores_original[j]]), l.label_ids)]

\* Lines 379-386: the lines printed for one fold.
FoldLines(k, folds) ==
    <<CountsLine(FoldNames[k] \o " predictions", folds.predictions[k]),
      MeanLine(FoldNames[k], folds.scores_diff[k])>>

CompareDirWith(args_dir, folds) ==
    /\ loc' = [loc EXCEPT !.predictions = folds.predictions,
                          !.scores_diff = folds.scores_diff,
                          !.i = loc.i + 1]
    /\ printed' = printed \o <<[line |-> args_dir]>>
           \o FoldLines(1, folds) \o FoldLines(2, folds) \o FoldLines(3, folds)

\* Lines 362-386: one turn of the loop over args_dirs.
CompareDir ==
    /\ pc = "compare_dir"
    /\ loc.i <= Len(loc.args_dirs)
    /\ CompareDirWith(loc.args_dirs[loc.i],
                      CompareFolds(Setup(fs, weights, loc.args_dirs[loc.i]).model, loc))
    /\ pc' = IF loc.i = Len(loc.args_dirs) THEN "done" ELSE "compare_dir"
    /\ UNCHANGED <<fs, dirs, weights, rng, calls, devlog>>

NextCompare ==
    \/ CompareStart
    \/ CompareDir

SpecCompare == InitCompare /\ [][NextCompare]_vars

----------------------------------------------------------------------------
(* What the claims speak of.                                               *)

Guids(examples) == {examples[i].guid : i \in 1..Len(examples)}

\* No guid occurs twice in the list.
DistinctGuids(examples) ==
    \A i, j \in 1..Len(examples) : i # j => examples[i].guid # examples[j].guid

\* How often the example with guid g occurs in the list.
Occurrences(examples, g) == Cardinality({i \in 1..Len(examples) : examples[i].guid = g})

PositiveNames ==
    {"random_10_percent_removed_positive", "most_confident_positive_removed",
     "least_confident_positive_removed"}

NegativeNames ==
    {"random_10_percent_removed_negative", "most_confident_negative_removed",
     "least_confident_negative_removed"}

\* The guids of the pool a variant removes from: one class for the
\* class-restricted variants, every example for the others.
PoolOf(config_name, base) ==
    IF config_name \in PositiveNames
    THEN {base[i].guid : i \in {j \in 1..Len(base) : base[j].label = "1"}}
    ELSE IF config_name \in NegativeNames
    THEN {base[i].guid : i \in {j \in 1..Len(base) : base[j].label = "0"}}
    ELSE Guids(base)

\* Whether some example of a class-restricted variant's pool was removed in full
\* measure: the call took floor(0.1 N) >= 2 examples out of its class.
FullMeasure(c, base) ==
    /\ Len(base) \div 10 >= 2
    /\ Len(c.train_examples) = Len(base) - Len(base) \div 10

----------------------------------------------------------------------------
(* C1 *)

C1SizesOriginal(base) ==
    \A k \in 1..Len(calls) :
        Len(calls[k].train_examples) = Len(base) - Len(base) \div 10

\* C1, as claimed: every variant passed to create_data_config holds
\* N - floor(0.1 N) examples, the class-restricted ones too, whatever the split
\* of the N base examples between the labels.
C1Original == C1SizesOriginal(ReadExamples(fs[BaseTrain]))

C1Sizes(base) ==
    \A k \in 1..Len(calls) :
        Len(calls[k].train_examples) =
            Len(base) - Min(Len(base) \div 10,
                            Cardinality(PoolOf(calls[k].config_name, base)))

\* C1, amended: every variant holds N - min(floor(0.1 N), p) examples, p being
\* the size of the pool it removes from (N for a combined or similarity variant,
\* the number of examples of the class for a class-restricted one).
C1Amended == C1Sizes(ReadExamples(fs[BaseTrain]))

C1Reached(base) ==
    /\ pc = "done"
    /\ \E k \in 1..Len(calls) :
        /\ calls[k].config_name \in PositiveNames
        /\ FullMeasure(calls[k], base)

\* The run has ended and a positive-only variant lost floor(0.1 N) >= 2 examples.
C1Witness == C1Reached(ReadExamples(fs[BaseTrain]))

----------------------------------------------------------------------------
(* C2 *)

C2Within(train_examples, all) ==
    /\ \A i \in 1..Len(train_examples) : train_examples[i] \in all
    /\ DistinctGuids(train_examples)

C2Subset(base) ==
    \A k \in 1..Len(calls) : C2Within(calls[k].train_examples, Range(base))

\* C2: every list passed to create_data_config holds only examples of the base
\* training set, and no base example twice; also after the in-place shuffles.
C2Theorem == C2Subset(ReadExamples(fs[BaseTrain]))

\* All nine random variants are written, from a base set large enough for an
\* example to be removed, and the last holds its examples out of base order.
C2Witness ==
    /\ pc = "remove_by_confidence"
    /\ Len(calls) = 3 * NTrials
    /\ loc.n_examples_removed >= 1
    /\ \E i \in 1..(Len(calls[Len(calls)].train_examples) - 1) :
           calls[Len(calls)].train_examples[i].guid
               > calls[Len(calls)].train_examples[i + 1].guid

----------------------------------------------------------------------------
(* C3 *)

MostConfidentNames ==
    {"most_confident_combined_removed", "most_confident_positive_removed",
     "most_confident_negative_removed"}

LeastConfidentNames ==
    {"least_confident_combined_removed", "least_confident_positive_removed",
     "least_confident_negative_removed"}

\* The model's probability for the own label of base example i.
OwnLabelScore(base, i) ==
    LET p == Probabilities(weights[DictGet(fs[BaseConfig], "output_dir")],
                           base[i].text_a)
    IN  IF base[i].label = "1" THEN p[2] ELSE p[1]

\* The examples of the pool the call removed, and those it kept.
RemovedOf(c, base) == PoolOf(c.config_name, base) \ Guids(c.train_examples)
RetainedOf(c, base) == PoolOf(c.config_name, base) \cap Guids(c.train_examples)

C3Ranked(base) ==
    /\ \A i \in 1..Len(base) : loc.scores[i] = OwnLabelScore(base, i)
    /\ \A k \in 1..Len(calls) :
        /\ calls[k].config_name \in MostConfidentNames =>
               \A r \in RemovedOf(calls[k], base), t \in RetainedOf(calls[k], base) :
                   loc.scores[r] >= loc.scores[t]
        /\ calls[k].config_name \in LeastConfidentNames =>
               \A r \in RemovedOf(calls[k], base), t \in RetainedOf(calls[k], base) :
                   loc.scores[r] <= loc.scores[t]

\* C3: the score is the model's probability for the example's own label; in a
\* most_confident variant every removed example of the pool scores at least as
\* high as every retained one, in a least_confident variant at most as high.
C3Theorem ==
    loc.fn = "remove_by_confidence" => C3Ranked(ReadExamples(fs[BaseTrain]))

C3Reached(base) ==
    /\ \E k \in 1..Len(calls) :
        /\ calls[k].config_name = "most_confident_positive_removed"
        /\ \E r \in RemovedOf(calls[k], base), t \in RetainedOf(calls[k], base) :
               loc.scores[r] > loc.scores[t]
    /\ \E k \in 1..Len(calls) :
        /\ calls[k].config_name = "least_confident_negative_removed"
        /\ \E r \in RemovedOf(calls[k], base), t \in RetainedOf(calls[k], base) :
               loc.scores[r] < loc.scores[t]

\* All six confidence variants are written; a positive example was removed
\* that scores higher than a retained one, and a negative that scores lower.
C3Witness ==
    /\ loc.fn = "remove_by_confidence"
    /\ pc = "remove_by_similarity"
    /\ C3Reached(ReadExamples(fs[BaseTrain]))

----------------------------------------------------------------------------
(* C4 *)

\* The rows of the eval set a fold holds: all, the label-0 ones, the label-1 ones.
InFold(f, example) ==
    \/ f = 1
    \/ f = 2 /\ example.label = "0"
    \/ f = 3 /\ example.label = "1"

\* The similarity of training example t accumulated over the eval examples of
\* fold f; the mean is this sum divided by the size of the fold.
Accumulated(eval, f) ==
    List([t \in 1..Len(loc.pooled_train) |->
        SeqSum([e \in 1..Len(eval) |->
            IF InFold(f, eval[e])
            THEN Dot(loc.pooled_eval[e], loc.pooled_train[t]) ELSE 0])])

SimilarityRemoved(c) == Guids(loc.train_examples) \ Guids(c.train_examples)

C4Fold(f, acc) ==
    \A k \in 1..Len(calls) :
        /\ calls[k].config_name = "most_similar_to_" \o FoldNames[f] \o "_dev_removed" =>
               \A r \in SimilarityRemoved(calls[k]), t \in Guids(calls[k].train_examples) :
                   acc[r] >= acc[t]
        /\ calls[k].config_name = "least_similar_to_" \o FoldNames[f] \o "_dev_removed" =>
               \A r \in SimilarityRemoved(calls[k]), t \in Guids(calls[k].train_examples) :
                   acc[r] <= acc[t]

C4Ranked(eval) == \A f \in 1..3 : C4Fold(f, Accumulated(eval, f))

\* C4: for each eval fold, every training example removed from
\* most_similar_to_{fold}_dev_removed has an accumulated similarity to the
\* fold's eval examples at least that of every retained one, and every example
\* removed from least_similar_to_{fold}_dev_removed at most that of every
\* retained one.
C4Theorem ==
    loc.fn = "remove_by_similarity" => C4Ranked(ReadExamples(fs[BaseDev]))

C4Reached(accNegative, accPositive) ==
    /\ \E k \in 1..Len(calls) :
        /\ calls[k].config_name = "most_similar_to_negative_dev_removed"
        /\ \E r \in SimilarityRemoved(calls[k]), t \in Guids(calls[k].train_examples) :
               accNegative[r] > accNegative[t]
    /\ \E k \in 1..Len(calls) :
        /\ calls[k].config_name = "least_similar_to_positive_dev_removed"
        /\ \E r \in SimilarityRemoved(calls[k]), t \in Guids(calls[k].train_examples) :
               accPositive[r] < accPositive[t]

\* All six similarity variants are written; the negative fold's most similar
\* variant lost an example more similar than one it kept, the positive fold's
\* least similar variant one less similar.
C4Witness ==
    /\ loc.fn = "remove_by_similarity"
    /\ pc = "done"
    /\ C4Reached(Accumulated(ReadExamples(fs[BaseDev]), 2),
                 Accumulated(ReadExamples(fs[BaseDev]), 3))

----------------------------------------------------------------------------
(* C5 *)

\* The variant holds every base example of label kept once, and lacks only
\* examples of the other label.
OtherClassUntouched(examples, base, kept) ==
    \A i \in 1..Len(base) :
        /\ base[i].label = kept => Occurrences(examples, base[i].guid) = 1
        /\ base[i].guid \notin Guids(examples) => base[i].label # kept

C5Frame(base) ==
    \A k \in 1..Len(calls) :
        /\ calls[k].config_name \in PositiveNames =>
               OtherClassUntouched(calls[k].train_examples, base, "0")
        /\ calls[k].config_name \in NegativeNames =>
               OtherClassUntouched(calls[k].train_examples, base, "1")

\* C5: a *_positive variant holds every label-0 base example exactly once and
\* lacks only label-1 examples; a *_negative variant holds every label-1 base
\* example exactly once and lacks only label-0 examples.
C5Theorem == C5Frame(ReadExamples(fs[BaseTrain]))

C5Reached(base) ==
    /\ \E i, j \in 1..Len(base) : base[i].label = "0" /\ base[j].label = "1"
    /\ \E k \in 1..Len(calls) :
        /\ calls[k].config_name = "least_confident_positive_removed"
        /\ Guids(calls[k].train_examples) # Guids(base)
    /\ \E k \in 1..Len(calls) :
        /\ calls[k].config_name = "random_10_percent_removed_negative"
        /\ Guids(calls[k].train_examples) # Guids(base)

\* Both classes are present, and a positive-only and a negative-only variant
\* have each lost an example.
C5Witness == C5Reached(ReadExamples(fs[BaseTrain]))

----------------------------------------------------------------------------
(* C8 *)

C8Paths ==
    /\ \A i, j \in 1..Len(calls) :
           i # j => /\ calls[i].train_data_dir # calls[j].train_data_dir
                    /\ calls[i].config_dir # calls[j].config_dir
    /\ \A i \in 1..Len(calls) :
        /\ calls[i].train_data_dir # BaseTrain
        /\ calls[i].config_dir # BaseConfig
        /\ fs[calls[i].train_data_dir] = TsvOf(calls[i].train_examples)
    /\ pc = "done" => Len(calls) = 21

\* C8: in one run of the script the 21 calls of create_data_config write
\* pairwise distinct train.tsv paths and pairwise distinct config paths, none
\* of them the base training file or the base config; every variant written
\* stays as written, and no step changes the base training file or the base
\* config.
C8Theorem ==
    /\ []C8Paths
    /\ [][/\ fs'[BaseTrain] = fs[BaseTrain]
          /\ fs'[BaseConfig] = fs[BaseConfig]]_vars

\* The run has ended with all 21 variants written.
C8Witness == pc = "done" /\ Len(calls) = 21 /\ Cardinality(DOMAIN fs) = 46

----------------------------------------------------------------------------
(* C10 *)

\* C10, as claimed: no dev example is written twice to the dev file, over the
\* three folds together.
C10Original == DistinctGuids(Flatten(devlog))

C10File(dev, rows, written) ==
    /\ Len(devlog) = 3
    /\ Len(rows) = 1 + Min(50, Len(dev))
                     + Min(50, Cardinality({i \in 1..Len(dev) : dev[i].label = "0"}))
                     + Min(50, Cardinality({i \in 1..Len(dev) : dev[i].label = "1"}))
    /\ Len(rows) = 1 + Len(written)
    /\ rows[1] = SubSeq(Header, 1, Len(Header) - 1)
    /\ \A k \in 1..Len(written) :
           Fields(rows[k + 1]) = <<written[k].text_a, <<written[k].label>> >>
    /\ \A f \in 1..3 :
        /\ DistinctGuids(devlog[f])
        /\ \A i \in 1..Len(devlog[f]) : devlog[f][i] \in Range(dev)
    /\ \A i \in 1..Len(devlog[2]) : devlog[2][i].label = "0"
    /\ \A i \in 1..Len(devlog[3]) : devlog[3][i].label = "1"

\* C10, amended: the dev file holds the header and min(50, |dev|) +
\* min(50, |label-0 dev|) + min(50, |label-1 dev|) rows, the rows of the
\* examples written fold by fold; within one fold the examples are pairwise
\* distinct examples of the GLUE dev set (of the fold's label), while an example
\* of the combined fold may be written again in the fold of its label.
C10Amended ==
    pc = "remove_by_random" =>
        C10File(ReadExamples(fs[GlueDev]), Lines(fs[BaseDev]), Flatten(devlog))

\* The dev file is written from a dev set of more than 50 examples: the
\* combined fold is cut to 50 and an example of it is written a second time.
C10Witness ==
    /\ pc = "remove_by_random"
    /\ Len(ReadExamples(fs[GlueDev])) > 50
    /\ Len(devlog[1]) = 50
    /\ ~DistinctGuids(Flatten(devlog))

----------------------------------------------------------------------------
(* C7 *)

\* The call whose file now stands at its path: no later call wrote there.
Stands(k) ==
    \A later \in (k + 1)..Len(calls) :
        calls[later].train_data_dir # calls[k].train_data_dir

C7Rows(rows, train_examples) ==
    /\ Len(rows) = 1 + Len(train_examples)
    /\ Fields(rows[1]) = << <<"s", "e", "n", "t", "e", "n", "c", "e">>,
                            <<"l", "a", "b", "e", "l">> >>
    /\ \A k \in 1..Len(train_examples) :
           Fields(rows[k + 1]) =
               <<train_examples[k].text_a, <<train_examples[k].label>> >>

\* C7: after create_data_config for task SST-2 the file at the call's
\* train.tsv path is the header row sentence<TAB>label followed by one row per
\* element of train_examples, in their order, row k holding text_a and label
\* of the k-th example; nothing of the file that stood there before remains.
C7Theorem ==
    \A k \in 1..Len(calls) :
        (calls[k].task_name = "SST-2" /\ Stands(k)) =>
            /\ fs[calls[k].train_data_dir][Len(fs[calls[k].train_data_dir])] = NL
            /\ C7Rows(Lines(fs[calls[k].train_data_dir]), calls[k].train_examples)

\* A second SST-2 call wrote a shorter, non-empty list over the file of the
\* first.
C7Witness ==
    /\ Len(calls) = 2
    /\ calls[1].task_name = "SST-2"
    /\ calls[1].train_data_dir = calls[2].train_data_dir
    /\ Len(calls[2].train_examples) >= 1
    /\ Len(calls[1].train_examples) > Len(calls[2].train_examples)
    /\ Len(Lines(fs[calls[2].train_data_dir])) = 1 + Len(calls[2].train_examples)

----------------------------------------------------------------------------
(* C9 *)

Keys(d) == {d[i][1] : i \in 1..Len(d)}

ExpectedName(c) ==
    IF c.version_number = None THEN c.config_name
    ELSE c.config_name \o "/" \o ToString(c.version_number[1])

C9Config(written, base, c) ==
    /\ Keys(written) = Keys(base) \cup {"train_data_dir", "output_dir"}
    /\ \A i, j \in 1..Len(written) : written[i][1] = written[j][1] => i = j
    /\ \A key \in Keys(base) \ {"train_data_dir", "output_dir"} :
           DictGet(written, key) = DictGet(base, key)
    /\ DictGet(written, "eval_data_dir") = DictGet(base, "eval_data_dir")
    /\ DictGet(written, "train_data_dir") =
           "data/" \o c.task_name \o "/" \o ExpectedName(c)
    /\ DictGet(written, "output_dir") =
           "output/" \o c.task_name \o "/" \o ExpectedName(c)

C9Step ==
    Len(calls') = Len(calls) + 1 =>
        C9Config(fs'[calls'[Len(calls')].config_dir],
                 fs[BaseConfigPath(calls'[Len(calls')].task_name)],
                 calls'[Len(calls')])

\* C9: the config a call of create_data_config writes has the keys of
\* configs/{task_name}/base.json as the call found it together with
\* train_data_dir and output_dir; train_data_dir is data/{task_name}/{name} and
\* output_dir is output/{task_name}/{name}, name being config_name followed by
\* /{version_number} when version_number is not None (0 included); every other
\* key, eval_data_dir among them, has the value base.json gave it.
C9Theorem == [][C9Step]_vars

\* A call with version_number 0 wrote a config whose output_dir ends in /0,
\* over a base config that had no train_data_dir.
C9Witness ==
    /\ Len(calls) >= 1
    /\ calls[Len(calls)].version_number = Some(0)
    /\ calls[Len(calls)].config_name # "base"
    /\ ~HasKey(fs[BaseConfigPath(calls[Len(calls)].task_name)], "train_data_dir")
    /\ DictGet(fs[calls[Len(calls)].config_dir], "output_dir") =
           "output/" \o calls[Len(calls)].task_name \o "/"
               \o calls[Len(calls)].config_name \o "/0"

----------------------------------------------------------------------------
(* C6 *)

\* The score model m gives eval example x for its gold label.
GoldScore(m, x) == Probabilities(m, x.text_a)[LabelId(x.label) + 1]

\* The model saved in the output_dir of a config.
ModelOf(config_path) == weights[DictGet(fs[config_path], "output_dir")]

\* The rows of the eval set with the given label, in the order of the file.
RowsOf(eval, label) ==
    Filter(List([j \in 1..Len(eval) |-> j]),
           List([j \in 1..Len(eval) |-> eval[j].label = label]))

\* The lines printed for the args_dir at place i of args_dirs.
LinesOf(i) == SubSeq(printed, 2 + 7 * (i - 1) + 1, 2 + 7 * i)

C6Fold(eval, rows, variant, diff, predictions, counts) ==
    /\ Len(diff) = Len(rows)
    /\ Len(predictions) = Len(rows)
    /\ \A k \in 1..Len(rows) :
        /\ diff[k] = GoldScore(variant, eval[rows[k]])
                         - GoldScore(ModelOf(BaseConfig), eval[rows[k]])
        /\ predictions[k] = ArgMax(Probabilities(variant, eval[rows[k]].text_a))
    /\ counts.positive + counts.negative = Len(rows)
    /\ counts.positive = Cardinality({k \in 1..Len(rows) : predictions[k] = 1})

C6Compared(eval, i) ==
    /\ LinesOf(i)[1].line = loc.args_dirs[i]
    /\ C6Fold(eval, List([j \in 1..Len(eval) |-> j]), ModelOf(loc.args_dirs[i]),
              loc.scores_diff[1], loc.predictions[1], LinesOf(i)[2])
    /\ C6Fold(eval, RowsOf(eval, "0"), ModelOf(loc.args_dirs[i]),
              loc.scores_diff[2], loc.predictions[2], LinesOf(i)[4])
    /\ C6Fold(eval, RowsOf(eval, "1"), ModelOf(loc.args_dirs[i]),
              loc.scores_diff[3], loc.predictions[3], LinesOf(i)[6])
    /\ Len(loc.scores_diff[2]) + Len(loc.scores_diff[3]) = Len(loc.scores_diff[1])

\* C6: after compare_scores has handled an args_dir, the delta of eval example
\* j is the score of that args_dir's model for j's gold label minus the
\* baseline model's, both over the eval set of the base config; the negative
\* fold holds the deltas and predictions of exactly the label-0 examples, the
\* positive fold those of exactly the label-1 examples, the two folds together
\* are as many as the combined fold, and the positive and negative prediction
\* counts printed for each fold sum to the fold's size.
C6Theorem ==
    (loc.fn = "compare_scores" /\ loc.i > 1) =>
        C6Compared(ReadExamples(fs[BaseDev]), loc.i - 1)

\* compare_scores has ended; the last args_dir's model differs from the
\* baseline, both folds hold examples, and a label-0 example's score changed.
C6Witness ==
    /\ loc.fn = "compare_scores"
    /\ pc = "done"
    /\ ModelOf(loc.args_dirs[Len(loc.args_dirs)]) # ModelOf(BaseConfig)
    /\ Len(loc.scores_diff[2]) >= 1
    /\ Len(loc.scores_diff[3]) >= 1
    /\ \E k \in 1..Len(loc.scores_diff[2]) : loc.scores_diff[2][k] # 0
    /\ \E k \in 1..Len(loc.predictions[3]) : loc.predictions[3][k] = 0

====
